---- MODULE Spec2Model ----
(***************************************************************************)
(* NTN-B pricing engine (src/utils/calculator.ts, the variant of lines     *)
(* 265-535 that src/types.ts and the components use) and the two React     *)
(* containers that call it (src/App.tsx, src/components/PortfolioManager). *)
(*                                                                         *)
(* Representation.                                                         *)
(*  - A JavaScript number is a fixed-point integer in units of 10^-6       *)
(*    ("micro"): 10.00 is 10000000.  Sums, differences and products by an  *)
(*    integer are exact; a product or quotient of two numbers is cut to    *)
(*    10^-6 towards zero.  The rounding of binary64 is modelled in the     *)
(*    sums of the portfolio only (see binary64 below).                     *)
(*  - Math.pow is computed by its series (ln by atanh, exp by Taylor) in   *)
(*    the same fixed point; it is exact for pow(1, x) and pow(b, 0), and   *)
(*    NaN for a negative base (every exponent of the engine is fractional).*)
(*  - A Date is [nan, t]: t is the UTC day number (days since 1970-01-01;  *)
(*    every Date of the engine is a UTC midnight), nan is "Invalid Date".  *)
(*  - A 'YYYY-MM-DD' string is [kind, y, m, d]; kind is "empty" for '',    *)
(*    "malformed" for a string whose parts are not numbers, "ymd" else.    *)
(***************************************************************************)
EXTENDS Integers, Sequences, FiniteSets, TLC

VARIABLES formData, result, error, steps, bonds, selectedBondId, nextId,
          portfolioResult

vars == <<formData, result, error, steps, bonds, selectedBondId, nextId,
          portfolioResult>>

(***************************************************************************)
(* Fixed-point arithmetic                                                  *)
(***************************************************************************)
RECURSIVE Pow10(_)
Pow10(n) == IF n = 0 THEN 1 ELSE 10 * Pow10(n - 1)

\* 1.0 in the fixed point
One == Pow10(6)

\* the largest integer TLC's arithmetic holds
MaxInt == (Pow10(9) + 73741823) * 2 + 1

Abs(a) == IF a < 0 THEN -a ELSE a

Sign(a) == IF a < 0 THEN -1 ELSE 1

\* <<q, r>> with a * b = q * c + r and 0 <= r < c, for a, b >= 0 and
\* 0 < c < 10^8, four bits of b at a time, so that no intermediate product
\* leaves TLC's integers
RECURSIVE MulDivQR(_, _, _)
MulDivQR(a, b, c) ==
    IF b = 0 \/ a = 0 THEN <<0, 0>>
    ELSE IF a <= MaxInt \div b THEN <<(a * b) \div c, (a * b) % c>>
    ELSE IF a >= c
    THEN LET p == MulDivQR(a % c, b, c)
         IN  <<(a \div c) * b + p[1], p[2]>>
    ELSE LET h  == MulDivQR(a, b \div 16, c)
             l  == a * (b % 16)
             rr == 16 * h[2] + (l % c)
         IN  <<16 * h[1] + (l \div c) + (rr \div c), rr % c>>

\* a * b / c cut towards zero (c > 0)
MulDiv(a, b, c) == Sign(a) * Sign(b) * MulDivQR(Abs(a), Abs(b), c)[1]

\* a / b cut towards zero (b > 0)
TruncDiv(a, b) == Sign(a) * (Abs(a) \div b)

\* x * y and x / y of two fixed-point numbers
FxMul(x, y) == MulDiv(x, y, One)

FxDiv(x, y) == Sign(y) * MulDiv(x, One, Abs(y))

\* sum_{k >= 0} z^(2k+1) / (2k+1), the terms below 10^-6 dropped
RECURSIVE AtanhSeries(_, _, _)
AtanhSeries(zPow, z2, k) ==
    IF zPow = 0 THEN 0
    ELSE TruncDiv(zPow, 2 * k + 1) + AtanhSeries(FxMul(zPow, z2), z2, k + 1)

\* ln(x) for x > 0:  2 * atanh((x - 1) / (x + 1))
Ln(x) ==
    LET z == FxDiv(x - One, x + One)
    IN  2 * AtanhSeries(z, FxMul(z, z), 0)

\* sum_{k >= n} y^k / k!, given term = y^n / n!, the terms below 10^-6 dropped
RECURSIVE ExpSeries(_, _, _)
ExpSeries(term, y, n) ==
    IF term = 0 THEN 0
    ELSE term + ExpSeries(TruncDiv(FxMul(term, y), n + 1), y, n + 1)

Exp(y) == ExpSeries(One, y, 0)

\* Math.pow(base, num / den) for an exponent num / den that is not NaN:
\* [fin |-> TRUE, v |-> the power] or [fin |-> FALSE] for NaN
Math_pow(base, num, den) ==
    IF num = 0 \/ base = One THEN [fin |-> TRUE, v |-> One]
    ELSE IF base < 0 THEN [fin |-> FALSE, v |-> 0]
    ELSE IF base = 0 THEN [fin |-> num > 0, v |-> 0]
    ELSE [fin |-> TRUE, v |-> Exp(MulDiv(Ln(base), num, den))]

\* the JavaScript NaN, and a finite number
NaN == [fin |-> FALSE, v |-> 0]

Num(v) == [fin |-> TRUE, v |-> v]

(***************************************************************************)
(* Whole numbers of any size, for the exact sums of the duration:          *)
(* little-endian sequences of WLimbs limbs in base 10^4                    *)
(***************************************************************************)
WBase == Pow10(4)

WLimbs == 1 .. 8

\* the limbs of eight limb sums, the carries propagated
WCarry(s) ==
    LET t1 == s[1]
        t2 == s[2] + (t1 \div WBase)
        t3 == s[3] + (t2 \div WBase)
        t4 == s[4] + (t3 \div WBase)
        t5 == s[5] + (t4 \div WBase)
        t6 == s[6] + (t5 \div WBase)
        t7 == s[7] + (t6 \div WBase)
        t8 == s[8] + (t7 \div WBase)
    IN  <<t1 % WBase, t2 % WBase, t3 % WBase, t4 % WBase,
          t5 % WBase, t6 % WBase, t7 % WBase, t8 % WBase>>

WFromInt(n) == WCarry([i \in WLimbs |-> IF i = 1 THEN n ELSE 0])

WAdd(x, y) == WCarry([i \in WLimbs |-> x[i] + y[i]])

RECURSIVE WConv(_, _, _, _)
WConv(x, y, k, i) ==
    IF i > k THEN 0 ELSE x[i] * y[k + 1 - i] + WConv(x, y, k, i + 1)

WMul(x, y) == WCarry([k \in WLimbs |-> WConv(x, y, k, 1)])

RECURSIVE WLessFrom(_, _, _)
WLessFrom(x, y, i) ==
    IF i = 0 THEN FALSE
    ELSE IF x[i] # y[i] THEN x[i] < y[i]
    ELSE WLessFrom(x, y, i - 1)

WLess(x, y) == WLessFrom(x, y, 8)

\* a fraction num / den of whole numbers (den > 0), and its order
Frac(n, d) == [num |-> WFromInt(n), den |-> WFromInt(d)]

FracLess(p, q) == WLess(WMul(p.num, q.den), WMul(q.num, p.den))

FracEq(p, q) == WMul(p.num, q.den) = WMul(q.num, p.den)

(***************************************************************************)
(* Amounts: the figures multiplied by the quantity, which the numbers of   *)
(* the fixed point cannot hold.  An amount is [units, micros], worth       *)
(* units + micros / 10^6 with 0 <= micros < 10^6.  The amounts that are no *)
(* finite number (a present value divided by 0) have a kind beside:        *)
(* "Infinity", "-Infinity" or "NaN".                                       *)
(***************************************************************************)
Amount(units, micros) ==
    [units |-> units + (micros \div One), micros |-> micros % One]

NonFinite(kind) == [units |-> 0, micros |-> 0, kind |-> kind]

AmountKind(x) == IF "kind" \in DOMAIN x THEN x.kind ELSE "finite"

\* x * quantity: Infinity * 0 is NaN, and a negative quantity turns the sign
AmountTimes(x, quantity) ==
    IF AmountKind(x) = "finite"
    THEN Amount(quantity * x.units, quantity * x.micros)
    ELSE IF AmountKind(x) = "NaN" \/ quantity = 0 THEN NonFinite("NaN")
    ELSE IF quantity > 0 THEN x
    ELSE IF AmountKind(x) = "Infinity" THEN NonFinite("-Infinity")
    ELSE NonFinite("Infinity")

\* value * quantity, for a number of the fixed point and a whole quantity
TimesQuantity(value, quantity) ==
    Amount(quantity * (value \div One), quantity * (value % One))

\* x + y: NaN with a NaN, and for Infinity + -Infinity
AmountAdd(x, y) ==
    IF AmountKind(x) = "finite" /\ AmountKind(y) = "finite"
    THEN Amount(x.units + y.units, x.micros + y.micros)
    ELSE IF AmountKind(x) = "finite" THEN y
    ELSE IF AmountKind(y) = "finite" \/ AmountKind(y) = AmountKind(x) THEN x
    ELSE NonFinite("NaN")

AmountSub(x, y) ==
    IF AmountKind(x) = "finite" /\ AmountKind(y) = "finite"
    THEN Amount(x.units - y.units, x.micros - y.micros)
    ELSE AmountAdd(x, AmountTimes(y, -1))

\* -1, 0 or 1 as x is below 0, 0 or NaN, or above 0: `x > 0` and `x < 0`
\* are both false of NaN
AmountSign(x) ==
    IF AmountKind(x) = "Infinity" THEN 1
    ELSE IF AmountKind(x) = "-Infinity" THEN -1
    ELSE IF x.units < 0 THEN -1 ELSE IF x.units = 0 /\ x.micros = 0 THEN 0 ELSE 1


\* the amounts of s added from 0, first to last
RECURSIVE AmountSum(_)
AmountSum(s) ==
    IF s = <<>> THEN Amount(0, 0)
    ELSE AmountAdd(AmountSum(SubSeq(s, 1, Len(s) - 1)), s[Len(s)])

\* the millionths of a finite amount x >= 0, as a whole number
AmountMicros(x) == WAdd(WMul(WFromInt(x.units), WFromInt(One)), WFromInt(x.micros))

(***************************************************************************)
(* binary64, for the sums of the portfolio.  A number is [neg, n]: n is    *)
(* its magnitude in units of 2^-64, a whole number of four limbs in base   *)
(* 2^24 (least significant first) with at most 53 significant bits.  Every *)
(* operation is the exact result rounded to nearest, ties to even.  The    *)
(* numbers of the portfolio lie between 2^-11 and 2^32, where every        *)
(* binary64 number is a multiple of the unit.                              *)
(***************************************************************************)
MantissaBits == 53

RECURSIVE Pow2(_)
Pow2(n) == IF n = 0 THEN 1 ELSE 2 * Pow2(n - 1)

LimbBase == Pow2(24)

Limbs == 1 .. 4

B64Zero == [neg |-> FALSE, n |-> <<0, 0, 0, 0>>]

\* the limbs of four limb sums (or differences), the carries propagated
Carried(s) ==
    LET t2 == s[2] + (s[1] \div LimbBase)
        t3 == s[3] + (t2 \div LimbBase)
    IN  <<s[1] % LimbBase, t2 % LimbBase, t3 % LimbBase,
          s[4] + (t3 \div LimbBase)>>

\* x < y for two whole numbers
LessLimbs(x, y) ==
    \E i \in Limbs : x[i] < y[i] /\ \A j \in Limbs : j > i => x[j] = y[j]

\* the number of significant bits of n
BitLen(n) ==
    LET used == { i \in Limbs : n[i] # 0 }
    IN  IF used = {} THEN 0
        ELSE LET top == CHOOSE i \in used : \A j \in used : j <= i
             IN  24 * (top - 1)
                 + (CHOOSE b \in 1 .. 31 : Pow2(b - 1) <= n[top] /\ n[top] \div 2 < Pow2(b - 1))

\* bit i of n, from bit 0
Bit(n, i) == (n[(i \div 24) + 1] \div Pow2(i % 24)) % 2

\* limb j of n cut to the bits from bit k on, and of the k lowest bits of n
HighLimb(n, k, j) ==
    IF 24 * j <= k THEN 0
    ELSE IF 24 * (j - 1) < k THEN n[j] - (n[j] % Pow2(k - 24 * (j - 1)))
    ELSE n[j]

LowBits(n, k) == [j \in Limbs |-> n[j] - HighLimb(n, k, j)]

\* limb j of 2^k
PowerLimb(k, j) == IF j = (k \div 24) + 1 THEN Pow2(k % 24) ELSE 0

\* n, or n and a little more when sticky, with its k lowest bits rounded away
RoundAt(n, sticky, k) ==
    IF k <= 0 THEN n
    ELSE IF /\ Bit(n, k - 1) = 1
            /\ \/ sticky
               \/ Bit(n, k) = 1
               \/ \E j \in Limbs : LowBits(n, k - 1)[j] # 0
    THEN Carried(<<HighLimb(n, k, 1) + PowerLimb(k, 1),
                   HighLimb(n, k, 2) + PowerLimb(k, 2),
                   HighLimb(n, k, 3) + PowerLimb(k, 3),
                   HighLimb(n, k, 4) + PowerLimb(k, 4)>>)
    ELSE <<HighLimb(n, k, 1), HighLimb(n, k, 2),
           HighLimb(n, k, 3), HighLimb(n, k, 4)>>

\* n, or n and a little more when sticky, rounded to MantissaBits bits
Round(n, sticky) == RoundAt(n, sticky, BitLen(n) - MantissaBits)

\* x + y (x, y >= 0)
B64Add(x, y) ==
    IF x = B64Zero THEN y
    ELSE IF y = B64Zero THEN x
    ELSE [neg |-> FALSE,
          n   |-> Round(Carried(<<x.n[1] + y.n[1], x.n[2] + y.n[2],
                                  x.n[3] + y.n[3], x.n[4] + y.n[4]>>), FALSE)]

\* x - y (x, y >= 0)
B64Sub(x, y) ==
    IF x = y THEN B64Zero
    ELSE IF LessLimbs(x.n, y.n)
    THEN [neg |-> TRUE,
          n   |-> Round(Carried(<<y.n[1] - x.n[1], y.n[2] - x.n[2],
                                  y.n[3] - x.n[3], y.n[4] - x.n[4]>>), FALSE)]
    ELSE [neg |-> FALSE,
          n   |-> Round(Carried(<<x.n[1] - y.n[1], x.n[2] - y.n[2],
                                  x.n[3] - y.n[3], x.n[4] - y.n[4]>>), FALSE)]

\* x * q for a whole number 0 <= q < 128 (x >= 0)
B64Times(x, q) ==
    [neg |-> FALSE,
     n   |-> Round(Carried(<<x.n[1] * q, x.n[2] * q, x.n[3] * q, x.n[4] * q>>),
                   FALSE)]

\* one step of the long division by d: <<quotient limb, remainder>> of
\* r * 2^24 + limb, for r < d
DivStep(r, limb, d) ==
    LET p == MulDivQR(r, LimbBase, d)
    IN  <<p[1] + ((p[2] + limb) \div d), (p[2] + limb) % d>>

\* the long division by d of the limbs of n from limb i down, r (< d) the
\* remainder brought down: <<the limbs 1 .. i of the quotient, the remainder>>
RECURSIVE LongDivision(_, _, _, _)
LongDivision(n, d, i, r) ==
    IF i = 0 THEN <<<<>>, r>>
    ELSE LET step == DivStep(r, n[i], d)
             rest == LongDivision(n, d, i - 1, step[2])
         IN  <<Append(rest[1], step[1]), rest[2]>>

\* num / d for whole numbers 0 <= num < 2^31 and 0 < d < 2^24
B64Quot(num, d) ==
    LET q == LongDivision(<<0, 0, (num % 256) * Pow2(16), num \div 256>>, d, 4, 0)
    IN  [neg |-> FALSE, n |-> Round(q[1], q[2] # 0)]

(***************************************************************************)
(* The JavaScript Date, in UTC                                             *)
(***************************************************************************)
\* the days from 0000-03-01 to the first of March of the year yy
DaysBeforeYear(yy) ==
    (yy \div 400) * 146097 + (yy % 400) * 365
    + ((yy % 400) \div 4) - ((yy % 400) \div 100)

\* day number of the civil date y-m-d (m in 1..12), proleptic Gregorian, the
\* year taken from March to February
DaysFromCivil(y, m, d) ==
    DaysBeforeYear(IF m <= 2 THEN y - 1 ELSE y)
    + ((153 * (IF m > 2 THEN m - 3 ELSE m + 9) + 2) \div 5) + d - 1 - 719468

\* Date.UTC(year, monthIndex, day) as a day number: a month index outside
\* 0..11 and a day outside the month carry over, as in JavaScript
DateUTC(year, monthIndex, day) ==
    DaysFromCivil(year + (monthIndex \div 12), (monthIndex % 12) + 1, 1) + day - 1

InvalidDate == [nan |-> TRUE, t |-> 0]

MkDate(t) == [nan |-> FALSE, t |-> t]

\* the fields of a Date from 1970 on
getUTCFullYear(date) ==
    CHOOSE y \in 1970 + (date.t \div 366) .. 1970 + (date.t \div 365) :
        DateUTC(y, 0, 1) <= date.t /\ date.t < DateUTC(y + 1, 0, 1)

MonthOf(t, year) ==
    CHOOSE m \in 0 .. 11 : DateUTC(year, m, 1) <= t /\ t < DateUTC(year, m + 1, 1)

getUTCMonth(date) == MonthOf(date.t, getUTCFullYear(date))

getUTCDate(date) ==
    date.t - DateUTC(getUTCFullYear(date), getUTCMonth(date), 1) + 1

\* 0 = Sunday ... 6 = Saturday; 1970-01-01 was a Thursday
getUTCDay(date) == (date.t + 4) % 7

\* date.setUTCMonth(monthIndex): the day of the month is kept
setUTCMonth(date, monthIndex) ==
    MkDate(DateUTC(getUTCFullYear(date), monthIndex, getUTCDate(date)))

\* the 'YYYY-MM-DD' strings of the model
EmptyString == [kind |-> "empty", y |-> 0, m |-> 0, d |-> 0]

Malformed == [kind |-> "malformed", y |-> 0, m |-> 0, d |-> 0]

Ymd(y, m, d) == [kind |-> "ymd", y |-> y, m |-> m, d |-> d]

parseDateAsUTC(dateString) ==
    IF dateString.kind = "ymd"
    THEN MkDate(DateUTC(dateString.y, dateString.m - 1, dateString.d))
    ELSE InvalidDate

(***************************************************************************)
(* Holidays                                                                *)
(***************************************************************************)
getEasterSunday(year) ==
    LET a == year % 19
        b == year \div 100
        c == year % 100
        d == b \div 4
        e == b % 4
        f == (b + 8) \div 25
        g == (b - f + 1) \div 3
        h == (19 * a + b - d - g + 15) % 30
        i == c \div 4
        k == c % 4
        l == (32 + 2 * e + 2 * i - h - k) % 7
        m == (a + 11 * h + 22 * l) \div 451
        month == (h + l - 7 * m + 114) \div 31
        day   == ((h + l - 7 * m + 114) % 31) + 1
    IN  DateUTC(year, month - 1, day)

getB3Holidays(year) ==
    { DateUTC(year, 0, 1), DateUTC(year, 3, 21), DateUTC(year, 4, 1),
      DateUTC(year, 8, 7), DateUTC(year, 9, 12), DateUTC(year, 10, 2),
      DateUTC(year, 10, 15), DateUTC(year, 10, 20), DateUTC(year, 11, 25),
      DateUTC(year, 11, 24), DateUTC(year, 11, 31) }
    \cup { getEasterSunday(year) + offset : offset \in {-47, -2, 60} }

\* the years the holiday table covers
HolidayYears == 2020 .. 2035

\* the table of '../data/holidays': the day numbers of its date strings
OFFICIAL_HOLIDAYS == UNION { getB3Holidays(y) : y \in HolidayYears }

isWeekend(date) == getUTCDay(date) = 0 \/ getUTCDay(date) = 6

\* date.toISOString() throws a RangeError on an Invalid Date
isHolidayThrows(date) == date.nan

isHoliday(date) == date.t \in OFFICIAL_HOLIDAYS

\* the first day from date on that is no weekend: the loop without isHoliday
RECURSIVE getNextWeekday(_)
getNextWeekday(date) ==
    IF isWeekend(date) THEN getNextWeekday(MkDate(date.t + 1)) ELSE date

\* the first business day after date: the loop stepping before it tests
RECURSIVE getBusinessDayAfter(_)
getBusinessDayAfter(date) ==
    IF isWeekend(MkDate(date.t + 1)) \/ isHoliday(MkDate(date.t + 1))
    THEN getBusinessDayAfter(MkDate(date.t + 1))
    ELSE MkDate(date.t + 1)

\* the first day from date on that is neither a weekend nor a holiday
RECURSIVE getNextBusinessDay(_)
getNextBusinessDay(date) ==
    IF isWeekend(date) \/ isHoliday(date)
    THEN getNextBusinessDay(MkDate(date.t + 1))
    ELSE date

\* the count with `while (current <= endDate)`: the end counted too
countBusinessDaysToEnd(startDate, endDate) ==
    IF startDate.nan \/ endDate.nan THEN 0
    ELSE IF startDate.t >= endDate.t THEN 0
    ELSE Cardinality({ t \in startDate.t .. endDate.t :
                        ~isWeekend(MkDate(t)) /\ ~isHoliday(MkDate(t)) })

\* start inclusive, end exclusive; 0 when either Date is invalid, for every
\* comparison with NaN is false
countBusinessDays(startDate, endDate) ==
    IF startDate.nan \/ endDate.nan THEN 0
    ELSE IF startDate.t >= endDate.t THEN 0
    ELSE Cardinality({ t \in startDate.t .. endDate.t - 1 :
                        ~isWeekend(MkDate(t)) /\ ~isHoliday(MkDate(t)) })

\* Math.round(Math.abs(difference in days)); NaN when a Date is invalid
countCalendarDays(startDate, endDate) ==
    IF startDate.nan \/ endDate.nan THEN NaN
    ELSE Num(Abs(startDate.t - endDate.t))

(***************************************************************************)
(* calculateNTNB                                                           *)
(***************************************************************************)
\* Math.pow(1.06, 0.5) - 1, in the fixed point
SEMI_ANNUAL_COUPON_RATE == 29563

\* the custody fee of the earlier calculateNTNB: 0.2% a year, above 10000
B3_CUSTODY_FEE_RATE == 2000

B3_CUSTODY_FEE_THRESHOLD == 10000

\* Math.trunc(value * 10^decimals) / 10^decimals; 0 for NaN and infinities
truncate(value, decimals) ==
    IF ~value.fin THEN 0
    ELSE TruncDiv(value.v, Pow10(6 - decimals)) * Pow10(6 - decimals)

\* `if (!purchaseDate || !maturityDate)`: only the empty string is falsy
MissingDates(fd) ==
    fd.purchaseDate.kind = "empty" \/ fd.maturityDate.kind = "empty"

\* `if (pDate > mDate)`: the comparison that lets equal dates through
PurchaseAfterMaturity(pDate, mDate) ==
    ~pDate.nan /\ ~mDate.nan /\ pDate.t > mDate.t

\* `if (pDate >= mDate)`: false when either Date is invalid
PurchaseNotBeforeMaturity(pDate, mDate) ==
    ~pDate.nan /\ ~mDate.nan /\ pDate.t >= mDate.t

\* new Date(Date.UTC(date.getUTCFullYear(), date.getUTCMonth(), 15))
fifteenthOf(date) == MkDate(DateUTC(getUTCFullYear(date), getUTCMonth(date), 15))

\* the reference dates with `if (pDay > 15)`: a purchase on the 15th is
\* referred to the month before
referenceDatesAfterFifteenth(pDate) ==
    IF pDate.nan THEN [start |-> InvalidDate, end |-> InvalidDate]
    ELSE IF getUTCDate(pDate) > 15
    THEN [start |-> fifteenthOf(pDate),
          end   |-> MkDate(DateUTC(getUTCFullYear(pDate), getUTCMonth(pDate) + 1, 15))]
    ELSE [start |-> fifteenthOf(setUTCMonth(pDate, getUTCMonth(pDate) - 1)),
          end   |-> fifteenthOf(pDate)]

\* Step 1, the reference dates: the 15th at or before the purchase, and the
\* 15th of the month after that one
referenceDates(pDate) ==
    IF pDate.nan THEN [start |-> InvalidDate, end |-> InvalidDate]
    ELSE IF getUTCDate(pDate) >= 15
    THEN [start |-> fifteenthOf(pDate),
          end   |-> MkDate(DateUTC(getUTCFullYear(pDate), getUTCMonth(pDate) + 1, 15))]
    ELSE [start |-> fifteenthOf(setUTCMonth(pDate, getUTCMonth(pDate) - 1)),
          end   |-> fifteenthOf(pDate)]

\* x * y for a number y that may be NaN
TimesNumber(x, y) == IF y.fin THEN Num(FxMul(x, y.v)) ELSE NaN

\* vnaPrevious * Math.pow(1 + ipcaDecimal, daysNumerator / daysDenominator)
vnaProjectedRaw(fd, daysNumerator, daysDenominator) ==
    IF ~daysNumerator.fin \/ ~daysDenominator.fin THEN NaN
    ELSE TimesNumber(fd.vnaPrevious,
                     Math_pow(One + TruncDiv(fd.projectedIpca, 100),
                              daysNumerator.v, daysDenominator.v))

\* the projection with the days left to the next reference date as exponent
vnaToReferenceEnd(fd, pDate, ref) ==
    truncate(vnaProjectedRaw(fd, countCalendarDays(pDate, ref.end),
                                 countCalendarDays(ref.start, ref.end)), 6)

\* Step 1 from the reference dates on
vnaFromReference(fd, pDate, ref) ==
    truncate(vnaProjectedRaw(fd, countCalendarDays(ref.start, pDate),
                                 countCalendarDays(ref.start, ref.end)), 6)

\* Step 1: VNA_prev * (1 + IPCA)^x, cut to 6 decimals
projectedVna(fd, pDate) == vnaFromReference(fd, pDate, referenceDates(pDate))

\* the cycle of May and November for every maturity
couponCycleOfMay(mDate) == [firstCouponMonth |-> 4, secondCouponMonth |-> 10]

\* Step 2: the month indices of the two coupons of a year
couponCycle(mDate) ==
    IF ~mDate.nan /\ getUTCMonth(mDate) \in {1, 7}
    THEN [firstCouponMonth |-> 1, secondCouponMonth |-> 7]
    ELSE [firstCouponMonth |-> 4, secondCouponMonth |-> 10]

\* Step 3: both 15ths of every year from the purchase year to the maturity
\* year; none when a year is NaN
potentialDates(pDate, mDate) ==
    IF pDate.nan \/ mDate.nan THEN <<>>
    ELSE LET currentYear == getUTCFullYear(pDate)
             endYear     == getUTCFullYear(mDate)
             cycle       == couponCycle(mDate)
         IN  [i \in 1 .. 2 * (endYear - currentYear + 1) |->
                MkDate(DateUTC(currentYear + (i - 1) \div 2,
                               IF i % 2 = 1 THEN cycle.firstCouponMonth
                                            ELSE cycle.secondCouponMonth,
                               15))]

\* flows.sort((a, b) => b.date - a.date): the comparator turned around
RECURSIVE sortFlowsDescending(_)
sortFlowsDescending(flows) ==
    IF flows = <<>> THEN <<>>
    ELSE LET init   == sortFlowsDescending(SubSeq(flows, 1, Len(flows) - 1))
             x      == flows[Len(flows)]
             before == SelectSeq(init, LAMBDA f : f.date.t >= x.date.t)
             after  == SelectSeq(init, LAMBDA f : f.date.t < x.date.t)
         IN  before \o <<x>> \o after

\* flows.sort((a, b) => a.date - b.date): stable, equal dates keep their order
RECURSIVE sortFlows(_)
sortFlows(flows) ==
    IF flows = <<>> THEN <<>>
    ELSE LET init   == sortFlows(SubSeq(flows, 1, Len(flows) - 1))
             x      == flows[Len(flows)]
             before == SelectSeq(init, LAMBDA f : f.date.t <= x.date.t)
             after  == SelectSeq(init, LAMBDA f : f.date.t > x.date.t)
         IN  before \o <<x>> \o after

\* a 'J' on the adjusted date of each of dates
couponFlows(dates) ==
    [i \in 1 .. Len(dates) |-> [date |-> getNextBusinessDay(dates[i]), type |-> "J"]]

\* Step 3 with the 'P' pushed before the coupons
generateFlowsPrincipalFirst(pDate, mDate) ==
    sortFlows(<<[date |-> getNextBusinessDay(mDate), type |-> "P"]>>
              \o couponFlows(SelectSeq(potentialDates(pDate, mDate),
                                       LAMBDA d : d.t > pDate.t /\ d.t <= mDate.t)))

\* Step 3 with the period tested on the adjusted dates
generateFlowsByAdjustedDate(pDate, mDate) ==
    sortFlows(couponFlows(SelectSeq(potentialDates(pDate, mDate),
                  LAMBDA d : /\ getNextBusinessDay(d).t > pDate.t
                             /\ getNextBusinessDay(d).t <= mDate.t))
              \o <<[date |-> getNextBusinessDay(mDate), type |-> "P"]>>)

\* Step 3: a 'J' on the adjusted date of every 15th in (pDate, mDate], then
\* the 'P' on the adjusted maturity, sorted by date (mDate is a valid Date)
generateFlows(pDate, mDate) ==
    sortFlows(couponFlows(SelectSeq(potentialDates(pDate, mDate),
                                    LAMBDA d : d.t > pDate.t /\ d.t <= mDate.t))
              \o <<[date |-> getNextBusinessDay(mDate), type |-> "P"]>>)

\* Math.pow(1 + rateDecimal, du / 252)
\* Math.pow(1 + rateDecimal, -du / 252): the exponent with its sign turned
discountDivisorInverted(rateDecimal, du) ==
    IF Math_pow(One + rateDecimal, du, 252).v = 0 THEN 0
    ELSE FxDiv(One, Math_pow(One + rateDecimal, du, 252).v)

discountDivisor(rateDecimal, du) == Math_pow(One + rateDecimal, du, 252).v

flowFactor(flow) == IF flow.type = "J" THEN SEMI_ANNUAL_COUPON_RATE ELSE One

\* an array built by map or by a loop of push, its elements computed once
ArrayOf(f) == f \o <<>>

RECURSIVE SumSeq(_)
SumSeq(s) == IF s = <<>> THEN 0 ELSE s[1] + SumSeq(Tail(s))

\* Step 4: the sum of the discounted flow factors, as a percentage cut to 4
\* decimals; a divisor that is 0 or NaN makes the sum Infinity or NaN
quotation(flows, pDate, rateDecimal) ==
    LET divisors == ArrayOf([i \in 1 .. Len(flows) |->
                        discountDivisor(rateDecimal,
                                        countBusinessDays(pDate, flows[i].date))])
    IN  IF \E i \in 1 .. Len(flows) : divisors[i] = 0
        THEN truncate(NaN, 4)
        ELSE truncate(Num(SumSeq([i \in 1 .. Len(flows) |->
                              FxDiv(flowFactor(flows[i]), divisors[i])]) * 100), 4)

\* futureValue / discountDivisor for one unit: Infinity, -Infinity or NaN
\* over a divisor of 0, and NaN over a divisor that is NaN
presentValueOf(futureValue, rateDecimal, du) ==
    IF ~Math_pow(One + rateDecimal, du, 252).fin THEN NonFinite("NaN")
    ELSE IF discountDivisor(rateDecimal, du) = 0
    THEN NonFinite(IF futureValue > 0 THEN "Infinity"
                   ELSE IF futureValue < 0 THEN "-Infinity" ELSE "NaN")
    ELSE Amount(0, FxDiv(futureValue, discountDivisor(rateDecimal, du)))

\* Step 6: the value of a flow per unit, cut to 2 decimals
futureValueOf(flow, vna) ==
    IF flow.type = "J"
    THEN truncate(Num(FxMul(vna, SEMI_ANNUAL_COUPON_RATE)), 2)
    ELSE truncate(Num(vna), 2)

\* the output rows with cumulativePV pushed as it is, for one unit
outputFlowsOfUnitTotal(flows, pDate, rateDecimal, vna, quantity) ==
    LET du == ArrayOf([i \in 1 .. Len(flows) |->
                          countBusinessDays(pDate, flows[i].date)])
        pv == ArrayOf([i \in 1 .. Len(flows) |->
                 presentValueOf(futureValueOf(flows[i], vna), rateDecimal, du[i])])
    IN  ArrayOf([i \in 1 .. Len(flows) |->
            [date                   |-> flows[i].date,
             type                   |-> flows[i].type,
             businessDays           |-> du[i],
             rate                   |-> IF flows[i].type = "J"
                                        THEN SEMI_ANNUAL_COUPON_RATE * 100 ELSE 0,
             futureValue            |-> TimesQuantity(futureValueOf(flows[i], vna),
                                                      quantity),
             presentValue           |-> AmountTimes(pv[i], quantity),
             cumulativePresentValue |-> AmountSum(SubSeq(pv, 1, i))]])

\* Step 6: the output rows
outputFlows(flows, pDate, rateDecimal, vna, quantity) ==
    LET du == ArrayOf([i \in 1 .. Len(flows) |->
                          countBusinessDays(pDate, flows[i].date)])
        pv == ArrayOf([i \in 1 .. Len(flows) |->
                 presentValueOf(futureValueOf(flows[i], vna), rateDecimal, du[i])])
    IN  ArrayOf([i \in 1 .. Len(flows) |->
            [date                   |-> flows[i].date,
             type                   |-> flows[i].type,
             businessDays           |-> du[i],
             rate                   |-> IF flows[i].type = "J"
                                        THEN SEMI_ANNUAL_COUPON_RATE * 100 ELSE 0,
             futureValue            |-> TimesQuantity(futureValueOf(flows[i], vna),
                                                      quantity),
             presentValue           |-> AmountTimes(pv[i], quantity),
             cumulativePresentValue |-> AmountTimes(AmountSum(SubSeq(pv, 1, i)),
                                                    quantity)]])

\* weightedDurationSum / priceForDuration, as an exact fraction: the sum of
\* (businessDays / 252) * presentValue over the sum of presentValue
RECURSIVE weightedDays(_)
weightedDays(cashFlows) ==
    IF cashFlows = <<>> THEN WFromInt(0)
    ELSE WAdd(WMul(WFromInt(cashFlows[1].businessDays),
                   AmountMicros(cashFlows[1].presentValue)),
              weightedDays(Tail(cashFlows)))

\* the duration with timeInYears = f.businessDays / 365
durationOfCalendarYear(cashFlows) ==
    LET priceForDuration ==
            AmountSum([i \in 1 .. Len(cashFlows) |-> cashFlows[i].presentValue])
    IN  IF AmountKind(priceForDuration) = "Infinity" THEN NaN
        ELSE IF AmountSign(priceForDuration) > 0
        THEN [num |-> weightedDays(cashFlows),
              den |-> WMul(WFromInt(365), AmountMicros(priceForDuration))]
        ELSE Frac(0, 1)

\* Infinity / Infinity, or NaN / Infinity, when the present values sum to
\* Infinity; 0 when the sum is not above 0
durationOf(cashFlows) ==
    LET priceForDuration ==
            AmountSum([i \in 1 .. Len(cashFlows) |-> cashFlows[i].presentValue])
    IN  IF AmountKind(priceForDuration) = "Infinity" THEN NaN
        ELSE IF AmountSign(priceForDuration) > 0
        THEN [num |-> weightedDays(cashFlows),
              den |-> WMul(WFromInt(252), AmountMicros(priceForDuration))]
        ELSE Frac(0, 1)

\* the absent result, and what a call does: returns value, or throws message
\* after the steps listed
NoResult == [none |-> TRUE]

Throw(message, completed) ==
    [threw |-> TRUE, message |-> message, steps |-> completed, value |-> NoResult]

Return(value) ==
    [threw |-> FALSE, message |-> "", value |-> value,
     steps |-> <<"vna", "cycle", "flows", "quotation", "price", "output",
                 "totals", "duration">>]

\* the returned object
CalculationResult(fd, vna, quotationPct, unitPrice, cashFlows, grossAmountReturned) ==
    Return([totalInvestment     |-> TimesQuantity(unitPrice, fd.quantity),
            unitPrice           |-> unitPrice,
            quotation           |-> quotationPct,
            grossAmountReturned |-> grossAmountReturned,
            grossProfit         |-> AmountSub(grossAmountReturned,
                                             TimesQuantity(unitPrice, fd.quantity)),
            duration            |-> durationOf(cashFlows),
            cashFlows           |-> cashFlows,
            formData            |-> fd,
            calculatedVna       |-> vna])

\* the totals with the present values summed in place of the future values
calculateTotalsOfPresentValues(fd, vna, quotationPct, cashFlows) ==
    CalculationResult(fd, vna, quotationPct,
                      truncate(Num(FxMul(vna, TruncDiv(quotationPct, 100))), 2),
                      cashFlows,
                      AmountSum([i \in 1 .. Len(cashFlows) |-> cashFlows[i].presentValue]))

\* Step 5 and the derived totals
calculateTotals(fd, vna, quotationPct, cashFlows) ==
    CalculationResult(fd, vna, quotationPct,
                      truncate(Num(FxMul(vna, TruncDiv(quotationPct, 100))), 2),
                      cashFlows,
                      AmountSum([i \in 1 .. Len(cashFlows) |-> cashFlows[i].futureValue]))

\* Steps 4 to 6
calculateFromFlows(fd, pDate, vna, flows, rateDecimal) ==
    calculateTotals(fd, vna, quotation(flows, pDate, rateDecimal),
                    outputFlows(flows, pDate, rateDecimal, vna, fd.quantity))

\* the check of the order of the dates, and Steps 1 to 3
calculateFromDates(fd, pDate, mDate) ==
    IF PurchaseNotBeforeMaturity(pDate, mDate)
    THEN Throw("Data de compra deve ser anterior ao vencimento.", <<>>)
    ELSE IF isHolidayThrows(mDate)
    THEN Throw("Invalid time value", <<"vna", "cycle">>)
    ELSE calculateFromFlows(fd, pDate, projectedVna(fd, pDate),
                            generateFlows(pDate, mDate),
                            TruncDiv(fd.purchaseRate, 100))

calculateNTNB(fd) ==
    IF MissingDates(fd) THEN Throw("Invalid dates", <<>>)
    ELSE calculateFromDates(fd, parseDateAsUTC(fd.purchaseDate),
                            parseDateAsUTC(fd.maturityDate))

(***************************************************************************)
(* calculatePortfolio.  Its sums are taken in binary64, in the order the   *)
(* code adds: the figures it adds are 2-decimal truncations times a        *)
(* quantity, whose binary64 values are known exactly.                      *)
(***************************************************************************)
\* the number that (Math.trunc(..) / 100) * quantity holds, for the figure
\* `value` of the fixed point (a multiple of 0.01, >= 0) and quantity >= 0
Money64(value, quantity) ==
    B64Times(B64Quot(value \div Pow10(4), 100), quantity)

\* flow.futureValue of a flow of the result res
futureValue64(res, flow) ==
    Money64(futureValueOf(flow, res.calculatedVna), res.formData.quantity)

\* values.reduce((sum, v) => sum + v, 0)
RECURSIVE reduceSum(_)
reduceSum(values) ==
    IF values = <<>> THEN B64Zero
    ELSE B64Add(reduceSum(SubSeq(values, 1, Len(values) - 1)),
                values[Len(values)])

\* res.totalInvestment and res.grossAmountReturned
totalInvestment64(res) == Money64(res.unitPrice, res.formData.quantity)

grossAmountReturned64(res) ==
    reduceSum(ArrayOf([i \in 1 .. Len(res.cashFlows) |->
                          futureValue64(res, res.cashFlows[i])]))

\* the flows of all results, in the order the two forEach visit them
RECURSIVE allFlows(_)
allFlows(results) ==
    IF results = <<>> THEN <<>>
    ELSE LET res == results[1].result
         IN  ArrayOf([i \in 1 .. Len(res.cashFlows) |->
                         [year  |-> getUTCFullYear(res.cashFlows[i].date),
                          type  |-> res.cashFlows[i].type,
                          value |-> futureValue64(res, res.cashFlows[i])]])
             \o allFlows(Tail(results))

\* the values of flows, in their order
valuesOf(flows) == ArrayOf([i \in 1 .. Len(flows) |-> flows[i].value])

\* the row of the year y when the two forEach are over: each of its sums has
\* taken, from 0 and in the visiting order, the flows of the year it counts
yearRow(flows, y) ==
    LET ofYear == SelectSeq(flows, LAMBDA f : f.year = y)
    IN  [year           |-> y,
         totalValue     |-> reduceSum(valuesOf(ofYear)),
         couponValue    |-> reduceSum(valuesOf(
                                SelectSeq(ofYear, LAMBDA f : f.type = "J"))),
         principalValue |-> reduceSum(valuesOf(
                                SelectSeq(ofYear, LAMBDA f : f.type # "J"))),
         flowCount      |-> Len(ofYear)]

\* yearMap when the two forEach are over: a row for every year of a flow
yearMapOf(flows) ==
    [y \in { flows[i].year : i \in 1 .. Len(flows) } |-> yearRow(flows, y)]

\* Array.from(yearMap.values()).sort((a, b) => a.year - b.year)
RECURSIVE rowsFrom(_, _)
rowsFrom(yearMap, years) ==
    IF years = {} THEN <<>>
    ELSE LET first == CHOOSE y \in years : \A z \in years : y <= z
         IN  <<yearMap[first]>> \o rowsFrom(yearMap, years \ {first})

sortedByYear(yearMap) == rowsFrom(yearMap, DOMAIN yearMap)

consolidatedFlowsOf(results) == sortedByYear(yearMapOf(allFlows(results)))

\* the returned object
PortfolioResult(individualResults, totalInvested, totalReturned) ==
    [individualResults |-> individualResults,
     consolidatedFlows |-> consolidatedFlowsOf(individualResults),
     totalInvested     |-> totalInvested,
     totalReturned     |-> totalReturned,
     totalProfit       |-> B64Sub(totalReturned, totalInvested)]

\* the two reduce over the results, and the consolidation
portfolioOf(individualResults) ==
    PortfolioResult(
        individualResults,
        reduceSum(ArrayOf([i \in 1 .. Len(individualResults) |->
                              totalInvestment64(individualResults[i].result)])),
        reduceSum(ArrayOf([i \in 1 .. Len(individualResults) |->
                              grossAmountReturned64(individualResults[i].result)])))

\* bonds.map(..) over the calls of calculateNTNB: the first call that throws
\* ends calculatePortfolio
portfolioFromCalls(bs, calls) ==
    IF \E i \in 1 .. Len(bs) : calls[i].threw
    THEN [threw |-> TRUE, value |-> NoResult]
    ELSE [threw |-> FALSE,
          value |-> portfolioOf(ArrayOf([i \in 1 .. Len(bs) |->
                                            [result |-> calls[i].value,
                                             id     |-> bs[i].id,
                                             name   |-> bs[i].name]]))]

\* the portfolio of the bonds bs
calculatePortfolio(bs) ==
    portfolioFromCalls(bs, ArrayOf([i \in 1 .. Len(bs) |-> calculateNTNB(bs[i])]))

(***************************************************************************)
(* The earlier calculateNTNB of the same file: coupons of 3 % on May 15    *)
(* and November 15, a pro-rata first coupon, and the custody fee.  Its     *)
(* form holds a purchasePrice where the later one holds a vnaPrevious.     *)
(***************************************************************************)
\* the 15th of May or of November before date, or date itself on such a day
getPreviousCouponDate(date) ==
    LET year  == getUTCFullYear(date)
        month == getUTCMonth(date)
    IN  IF month < 4 \/ (month = 4 /\ getUTCDate(date) < 15)
        THEN MkDate(DateUTC(year - 1, 10, 15))
        ELSE IF month < 10 \/ (month = 10 /\ getUTCDate(date) < 15)
        THEN MkDate(DateUTC(year, 4, 15))
        ELSE MkDate(DateUTC(year, 10, 15))

\* the 15th of May or of November after date
getNextCouponDate(date) ==
    LET year  == getUTCFullYear(date)
        month == getUTCMonth(date)
    IN  IF month < 4 \/ (month = 4 /\ getUTCDate(date) < 15)
        THEN MkDate(DateUTC(year, 4, 15))
        ELSE IF month < 10 \/ (month = 10 /\ getUTCDate(date) < 15)
        THEN MkDate(DateUTC(year, 10, 15))
        ELSE MkDate(DateUTC(year + 1, 4, 15))

\* './holidays': a business day is no weekend and no holiday, and a date is
\* adjusted to the first business day from it on
isBusinessDay(date) == ~isWeekend(date) /\ ~isHoliday(date)

adjustToBusinessDay(date) == getNextBusinessDay(date)

\* the adjusted May 15 and November 15 of the years from that of startDate
\* to the year after that of endDate, for the 15ths in (startDate, endDate]
getCouponDates(startDate, endDate) ==
    LET currentYear == getUTCFullYear(startDate)
        endYear     == getUTCFullYear(endDate)
        coupons     == [i \in 1 .. 2 * (endYear + 2 - currentYear) |->
                           MkDate(DateUTC(currentYear + (i - 1) \div 2,
                                          IF i % 2 = 1 THEN 4 ELSE 10, 15))]
        within      == SelectSeq(coupons,
                                 LAMBDA d : d.t > startDate.t /\ d.t <= endDate.t)
    IN  ArrayOf([i \in 1 .. Len(within) |-> adjustToBusinessDay(within[i])])

\* vnaAtPurchase * Math.pow(1 + ipcaDecimal, days / 252)
projectedVnaAfter(vnaAtPurchase, ipcaDecimal, days) ==
    FxMul(vnaAtPurchase, Math_pow(One + ipcaDecimal, days, 252).v)

\* the part of the next coupon held since the purchase; null for a purchase
\* on a coupon date
calculateProRataCoupon(purchaseDate, vnaAtPurchase, ipcaDecimal, quantity) ==
    LET nextCoupon == getNextCouponDate(purchaseDate)
        prevCoupon == getPreviousCouponDate(purchaseDate)
        totalDays  == nextCoupon.t - prevCoupon.t
        daysUntilNextCoupon == totalDays - (purchaseDate.t - prevCoupon.t)
        vnaAtNextCoupon == projectedVnaAfter(vnaAtPurchase, ipcaDecimal,
                                             nextCoupon.t - purchaseDate.t)
    IN  IF purchaseDate.t <= prevCoupon.t
        THEN [isNull |-> TRUE, date |-> InvalidDate, amount |-> 0]
        ELSE [isNull |-> FALSE,
              date   |-> adjustToBusinessDay(nextCoupon),
              amount |-> MulDiv(FxMul(vnaAtNextCoupon, 3 * Pow10(4)),
                                daysUntilNextCoupon, totalDays) * quantity]

\* a full coupon of the bond of the form fd on each of couponDates
fullCoupons(pDate, couponDates, fd) ==
    ArrayOf([i \in 1 .. Len(couponDates) |->
        [date   |-> couponDates[i],
         type   |-> "Cupom",
         amount |-> FxMul(projectedVnaAfter(fd.purchasePrice,
                                            TruncDiv(fd.projectedIpca, 100),
                                            couponDates[i].t - pDate.t),
                          3 * Pow10(4)) * fd.quantity]])

\* the coupons with none skipped: the pro-rata coupon and every full coupon
couponEventsUnskipped(pDate, couponDates, fd, proRataCoupon) ==
    (IF ~proRataCoupon.isNull /\ proRataCoupon.amount > 0
     THEN <<[date |-> proRataCoupon.date, type |-> "Cupom",
             amount |-> proRataCoupon.amount]>>
     ELSE <<>>)
    \o fullCoupons(pDate, couponDates, fd)

\* the pro-rata coupon when its amount is above 0, and the full coupons but
\* the one on the date of the pro-rata coupon
couponEvents(pDate, couponDates, fd, proRataCoupon) ==
    (IF ~proRataCoupon.isNull /\ proRataCoupon.amount > 0
     THEN <<[date |-> proRataCoupon.date, type |-> "Cupom",
             amount |-> proRataCoupon.amount]>>
     ELSE <<>>)
    \o fullCoupons(pDate,
                   SelectSeq(couponDates,
                             LAMBDA d : ~(~proRataCoupon.isNull
                                            /\ d.t = proRataCoupon.date.t)),
                   fd)

\* the redemption, the custody fee, the totals and the sorted rows
resultOfCoupons(fd, pDate, mDate, coupons) ==
    LET totalInvestment  == fd.quantity * fd.purchasePrice
        totalDays        == mDate.t - pDate.t
        redemptionAmount ==
            projectedVnaAfter(fd.purchasePrice, TruncDiv(fd.projectedIpca, 100),
                              totalDays) * fd.quantity
        charged          ==
            \/ totalInvestment \div One > B3_CUSTODY_FEE_THRESHOLD
            \/ /\ totalInvestment \div One = B3_CUSTODY_FEE_THRESHOLD
               /\ totalInvestment % One > 0
        totalCustodyFee  ==
            IF charged
            THEN MulDiv(FxMul(totalInvestment, B3_CUSTODY_FEE_RATE), totalDays, 252)
            ELSE 0
        cashFlows        ==
            sortFlows(coupons
                      \o <<[date |-> mDate, type |-> "Resgate Principal",
                            amount |-> redemptionAmount]>>
                      \o (IF charged
                          THEN <<[date |-> mDate, type |-> "Cupom",
                                  amount |-> -totalCustodyFee]>>
                          ELSE <<>>))
        amounts          == ArrayOf([i \in 1 .. Len(cashFlows) |-> cashFlows[i].amount])
        grossAmountReturned ==
            SumSeq([i \in 1 .. Len(coupons) |-> coupons[i].amount])
                + redemptionAmount - totalCustodyFee
    IN  [threw   |-> FALSE,
         message |-> "",
         steps   |-> <<>>,
         value   |->
            [totalInvestment     |-> totalInvestment,
             grossAmountReturned |-> grossAmountReturned,
             grossProfit         |-> grossAmountReturned - totalInvestment,
             annualizedReturn    |->
                 (Math_pow(FxDiv(grossAmountReturned, totalInvestment),
                           252, totalDays).v - One) * 100,
             cashFlows           |->
                 ArrayOf([i \in 1 .. Len(cashFlows) |->
                     [date             |-> cashFlows[i].date,
                      type             |-> cashFlows[i].type,
                      amount           |-> cashFlows[i].amount,
                      cumulativeAmount |-> SumSeq(SubSeq(amounts, 1, i))]]),
             formData            |-> fd]]

\* the validations, and the coupons of the bond
calculateNTNBEarlier(fd) ==
    LET pDate == parseDateAsUTC(fd.purchaseDate)
        mDate == parseDateAsUTC(fd.maturityDate)
    IN  IF MissingDates(fd)
        THEN Throw("As datas de compra e vencimento são obrigatórias.", <<>>)
        ELSE IF fd.quantity <= 0 \/ fd.purchasePrice <= 0
        THEN Throw("Quantidade e preço de compra devem ser positivos.", <<>>)
        ELSE IF fd.purchaseRate < 0
        THEN Throw("A taxa de compra não pode ser negativa.", <<>>)
        ELSE IF pDate.nan \/ mDate.nan
        THEN Throw("Formato de data inválido. Use o formato AAAA-MM-DD.", <<>>)
        ELSE IF pDate.t >= mDate.t
        THEN Throw("A data de vencimento deve ser posterior à data de compra.", <<>>)
        ELSE IF ~isBusinessDay(pDate)
        THEN Throw("A data de compra deve ser um dia útil.", <<>>)
        ELSE resultOfCoupons(fd, pDate, mDate,
                 couponEvents(pDate, getCouponDates(pDate, mDate), fd,
                              calculateProRataCoupon(pDate, fd.purchasePrice,
                                  TruncDiv(fd.projectedIpca, 100), fd.quantity)))

(***************************************************************************)
(* The inputs of the model                                                 *)
(***************************************************************************)
\* the largest quantity, and the number of maturity years after 2025
MaxQuantity == 2

MaxYears == 2

Quantities == -1 .. MaxQuantity

\* -1.00, 0, 0.30 and 10.00
VnaPreviousValues == {-One, 0, 3 * Pow10(5), 10 * One}

\* 0 % and 0.50 % a month
IpcaValues == {0, 5 * Pow10(5)}

\* -1 %, 0 % and 6 % a year
RateValues == {-One, 0, 6 * One}

\* '', 'abc', business days (on, before and after the 15th, in December and
\* in January), a Saturday that is a coupon date, and a weekday holiday
PurchaseDates ==
    { EmptyString, Malformed,
      Ymd(2025, 11, 25), Ymd(2025, 12, 15), Ymd(2025, 12, 16), Ymd(2026, 1, 5),
      Ymd(2026, 5, 15), Ymd(2025, 11, 15), Ymd(2025, 11, 20) }

\* '', 'abc', dates off the coupon cycle, and the coupon dates of both cycles
MaturityDates ==
    { EmptyString, Malformed, Ymd(2025, 11, 25), Ymd(2026, 3, 2) }
    \cup { Ymd(2025 + k, m, 15) : k \in 1 .. MaxYears, m \in {5, 8, 11} }

FormInputs ==
    [quantity : Quantities, purchaseDate : PurchaseDates,
     maturityDate : MaturityDates, purchaseRate : RateValues,
     vnaPrevious : VnaPreviousValues, projectedIpca : IpcaValues]

\* the form as it opens, but for its maturity and its VNA
DefaultForm ==
    [quantity |-> 1, purchaseDate |-> Ymd(2025, 11, 25),
     maturityDate |-> Ymd(2026, 5, 15), purchaseRate |-> 6 * One,
     vnaPrevious |-> 10 * One, projectedIpca |-> 5 * Pow10(5)]

\* four forms beside the grid: ten units of a bond with a VNA of 1100.00,
\* worth more than 10000.00, a bond with a VNA of 0.000001, a projected
\* inflation of -200 %, for which Math.pow has no number to give, and a
\* purchase rate of -100 %, which makes every discount divisor 0
ExtraForms ==
    { [DefaultForm EXCEPT !.quantity = 10, !.vnaPrevious = 1100 * One,
                          !.projectedIpca = 0],
      [DefaultForm EXCEPT !.vnaPrevious = 1],
      [DefaultForm EXCEPT !.projectedIpca = -200 * One],
      [DefaultForm EXCEPT !.purchaseRate = -100 * One] }

\* the bonds ever added to the portfolio
MaxBonds == 3

\* the forms added to the portfolio: one or MaxQuantity units of a bond of
\* one or two years, bought on a business day, and a form without a date
PortfolioInputs ==
    { fd \in FormInputs :
        /\ fd.quantity \in {1, MaxQuantity}
        /\ fd.purchaseDate \in {Ymd(2025, 11, 25), EmptyString}
        /\ fd.purchaseDate = EmptyString => fd.quantity = 1
        /\ fd.maturityDate \in {Ymd(2026, 5, 15), Ymd(2027, 5, 15)}
        /\ fd.purchaseDate = EmptyString => fd.maturityDate = Ymd(2026, 5, 15)
        /\ fd.purchaseRate = 6 * One
        /\ fd.vnaPrevious = 10 * One
        /\ fd.projectedIpca = 0 }

(***************************************************************************)
(* App: the form as submitted, and the result or the error it shows        *)
(***************************************************************************)
NullError == "null"

\* handleCalculate: the result of calculateNTNB, or the message it threw
setCalculation(calculation) ==
    /\ result' = calculation.value
    /\ error' = IF calculation.threw THEN calculation.message ELSE NullError
    /\ steps' = calculation.steps
    /\ UNCHANGED <<formData, bonds, selectedBondId, nextId, portfolioResult>>

handleCalculate == setCalculation(calculateNTNB(formData))

(***************************************************************************)
(* PortfolioManager: the bonds, the selected bond and the memoised result  *)
(***************************************************************************)
\* the selection when no bond is selected (ids start at 1)
NullId == 0

\* the portfolio tab after calculatePortfolio threw while rendering
Crashed == [crashed |-> TRUE]

\* useMemo(() => bonds.length === 0 ? null : calculatePortfolio(bonds))
memoOf(portfolio) == IF portfolio.threw THEN Crashed ELSE portfolio.value

portfolioResultOf(bs) ==
    IF bs = <<>> THEN NoResult ELSE memoOf(calculatePortfolio(bs))

\* useMemo: the result of the selected bond, if any
selectedBondResult ==
    IF portfolioResult \in {NoResult, Crashed} \/ selectedBondId = NullId
    THEN NoResult
    ELSE LET results == portfolioResult.individualResults
             found   == { i \in 1 .. Len(results) : results[i].id = selectedBondId }
         IN  IF found = {} THEN NoResult
             ELSE results[CHOOSE i \in found : \A j \in found : i <= j]

\* { ...data, id: crypto.randomUUID(), name }: the id is one never used before
newBond(data, id) ==
    [quantity      |-> data.quantity,
     purchaseDate  |-> data.purchaseDate,
     maturityDate  |-> data.maturityDate,
     purchaseRate  |-> data.purchaseRate,
     vnaPrevious   |-> data.vnaPrevious,
     projectedIpca |-> data.projectedIpca,
     id            |-> id,
     name          |-> <<data.maturityDate.y, data.purchaseRate>>]

handleAddBond(data) ==
    /\ portfolioResult # Crashed
    /\ nextId <= MaxBonds
    /\ bonds' = Append(bonds, newBond(data, nextId))
    /\ nextId' = nextId + 1
    /\ portfolioResult' = portfolioResultOf(bonds')
    /\ UNCHANGED <<formData, result, error, steps, selectedBondId>>

\* handleRemoveBond without its second statement: the selection is kept
handleRemoveBondKeepingSelection(id) ==
    /\ portfolioResult # Crashed
    /\ \E i \in 1 .. Len(bonds) : bonds[i].id = id
    /\ bonds' = SelectSeq(bonds, LAMBDA b : b.id # id)
    /\ portfolioResult' = portfolioResultOf(bonds')
    /\ UNCHANGED <<formData, result, error, steps, nextId, selectedBondId>>

\* setBonds(prev => prev.filter(b => b.id !== id)), and the selection
\* cleared when the bond removed is the selected one
handleRemoveBond(id) ==
    /\ portfolioResult # Crashed
    /\ \E i \in 1 .. Len(bonds) : bonds[i].id = id
    /\ bonds' = SelectSeq(bonds, LAMBDA b : b.id # id)
    /\ selectedBondId' = IF selectedBondId = id THEN NullId ELSE selectedBondId
    /\ portfolioResult' = portfolioResultOf(bonds')
    /\ UNCHANGED <<formData, result, error, steps, nextId>>

\* the click on a bond of the list
toggleSelectedBond(id) ==
    /\ portfolioResult # Crashed
    /\ \E i \in 1 .. Len(bonds) : bonds[i].id = id
    /\ selectedBondId' = IF selectedBondId = id THEN NullId ELSE id
    /\ UNCHANGED <<formData, result, error, steps, bonds, nextId, portfolioResult>>

Init ==
    /\ formData \in FormInputs \cup ExtraForms
    /\ result = NoResult
    /\ error = NullError
    /\ steps = <<>>
    /\ bonds = <<>>
    /\ selectedBondId = NullId
    /\ nextId = 1
    /\ portfolioResult = NoResult

Next == handleCalculate

Spec == Init /\ [][Next]_vars

InitPortfolio ==
    /\ formData = DefaultForm
    /\ result = NoResult
    /\ error = NullError
    /\ steps = <<>>
    /\ bonds = <<>>
    /\ selectedBondId = NullId
    /\ nextId = 1
    /\ portfolioResult = NoResult

NextPortfolio ==
    \/ \E data \in PortfolioInputs : handleAddBond(data)
    \/ \E id \in 1 .. MaxBonds : handleRemoveBond(id)
    \/ \E id \in 1 .. MaxBonds : toggleSelectedBond(id)

SpecPortfolio == InitPortfolio /\ [][NextPortfolio]_vars

\* the earlier calculateNTNB behind handleCalculate: the forms of a bond
\* priced at 10.00, bought on the dates of the grid or on 2026-06-01
InitEarlier ==
    /\ formData \in [quantity      : {0, 1, MaxQuantity},
                     purchasePrice : {0, 10 * One},
                     projectedIpca : IpcaValues,
                     purchaseDate  : PurchaseDates \cup {Ymd(2026, 6, 1)},
                     maturityDate  : MaturityDates,
                     purchaseRate  : {-One, 6 * One}]
    /\ result = NoResult
    /\ error = NullError
    /\ steps = <<>>
    /\ bonds = <<>>
    /\ selectedBondId = NullId
    /\ nextId = 1
    /\ portfolioResult = NoResult

NextEarlier == setCalculation(calculateNTNBEarlier(formData))

SpecEarlier == InitEarlier /\ [][NextEarlier]_vars

(***************************************************************************)
(* Properties of calculateNTNB, read on the state handleCalculate leaves   *)
(***************************************************************************)
\* handleCalculate has run: it left a result or an error
Called == result # NoResult \/ error # NullError

settlement == parseDateAsUTC(formData.purchaseDate)

maturity == parseDateAsUTC(formData.maturityDate)

BothDates == formData.purchaseDate.kind = "ymd" /\ formData.maturityDate.kind = "ymd"

\* the figures of the form are those of a bond
ValidFigures ==
    formData.quantity > 0 /\ formData.vnaPrevious > 0 /\ formData.purchaseRate >= 0

IsBusinessDay(t) == ~isWeekend(MkDate(t)) /\ ~isHoliday(MkDate(t))

\* the dates of the form are those of a purchase: a business day before the
\* maturity
ValidDates ==
    BothDates /\ settlement.t < maturity.t /\ IsBusinessDay(settlement.t)

\* t is the first business day from anchor on
AdjustedFrom(anchor, t) ==
    /\ anchor <= t
    /\ IsBusinessDay(t)
    /\ \A u \in anchor .. t - 1 : ~IsBusinessDay(u)

\* C1: a call whose purchase date is the maturity date or a later day throws
\* "Data de compra deve ser anterior ao vencimento." before any step, and
\* leaves no result
C1_PurchaseNotBeforeMaturityThrows ==
    (Called /\ BothDates /\ settlement.t >= maturity.t)
        => /\ result = NoResult
           /\ error = "Data de compra deve ser anterior ao vencimento."
           /\ steps = <<>>

\* a call with the purchase on the very day of the maturity threw
C1_Witness ==
    /\ Called
    /\ BothDates
    /\ settlement.t = maturity.t
    /\ result = NoResult
    /\ error = "Data de compra deve ser anterior ao vencimento."

\* C2: a call whose purchase date is a Saturday, a Sunday or a holiday throws
\* before the VNA projection or any other step, and leaves no result (read
\* on the calls whose other fields are valid: a maturity after the purchase
\* and the figures of a bond)
C2_NonBusinessDayPurchaseThrows ==
    (/\ Called
     /\ BothDates
     /\ settlement.t < maturity.t
     /\ ValidFigures
     /\ ~IsBusinessDay(settlement.t))
        => /\ result = NoResult
           /\ error # NullError
           /\ steps = <<>>

\* C3: a call with quantity <= 0, vnaPrevious <= 0 or purchaseRate < 0 throws
\* and leaves no result (read on the calls whose dates are valid: a purchase
\* on a business day before the maturity)
C3_NonPositiveInputsThrow ==
    (Called /\ ValidDates /\ ~ValidFigures)
        => /\ result = NoResult
           /\ error # NullError

\* C4: a call with a purchase or maturity date that is absent or is no
\* calendar date throws before any step has run, and leaves no result (read
\* on the calls with the figures of a bond)
C4_BadDatesThrowBeforeAnyStep ==
    (Called /\ ValidFigures /\ ~BothDates)
        => /\ result = NoResult
           /\ error # NullError
           /\ steps = <<>>

\* the rows of the result, and the dates of its last row and of row i
Rows == result.cashFlows

RowDay(i) == Rows[i].date.t

\* t is the adjusted date of a 15th: the weekends and the holidays never
\* hold a date back by more than six days
AdjustedFromFifteenth(t) ==
    \E anchor \in t - 6 .. t :
        getUTCDate(MkDate(anchor)) = 15 /\ AdjustedFrom(anchor, t)

\* C5: every date of the cash flows of a result is a business day, and the
\* first one from its anchor on: the maturity date for the 'P' row, a 15th
\* of a month for a 'J' row
C5_FlowDatesAreAdjustedAnchors ==
    result # NoResult =>
        \A i \in 1 .. Len(Rows) :
            IF Rows[i].type = "P"
            THEN AdjustedFrom(maturity.t, RowDay(i))
            ELSE AdjustedFromFifteenth(RowDay(i))

\* a result whose 'P' row and one of whose 'J' rows were both moved off
\* their anchors
C5_Witness ==
    /\ result # NoResult
    /\ \E i \in 1 .. Len(Rows) : Rows[i].type = "P" /\ RowDay(i) > maturity.t
    /\ \E i \in 1 .. Len(Rows) :
          Rows[i].type = "J" /\ getUTCDate(Rows[i].date) # 15

\* C6: the cash flows of a result are not empty, their dates never decrease
\* from one row to the next, and the last row is the 'P' row, dated on the
\* first business day from the maturity date on
C6_FlowsEndWithThePrincipal ==
    result # NoResult =>
        /\ Len(Rows) >= 1
        /\ \A i \in 1 .. Len(Rows) - 1 : RowDay(i) <= RowDay(i + 1)
        /\ Rows[Len(Rows)].type = "P"
        /\ AdjustedFrom(maturity.t, RowDay(Len(Rows)))

\* a result with coupons on different dates before its principal
C6_Witness ==
    /\ result # NoResult
    /\ Len(Rows) >= 3
    /\ RowDay(1) < RowDay(2)
    /\ Rows[Len(Rows)].type = "P"

\* C7: where a 'J' row and the 'P' row of a result have the same date, the
\* 'J' row comes first, and its cumulative present value is the sum of the
\* present values of the rows down to it, the principal not among them
C7_InterestBeforePrincipal ==
    result # NoResult =>
        \A i, j \in 1 .. Len(Rows) :
            (Rows[i].type = "J" /\ Rows[j].type = "P" /\ RowDay(i) = RowDay(j))
                => /\ i < j
                   /\ Rows[i].cumulativePresentValue =
                          AmountSum([k \in 1 .. i |-> Rows[k].presentValue])

\* a result whose last coupon is paid on the date of the principal, both
\* with a present value
C7_Witness ==
    /\ result # NoResult
    /\ \E i, j \in 1 .. Len(Rows) :
          /\ Rows[i].type = "J"
          /\ Rows[j].type = "P"
          /\ RowDay(i) = RowDay(j)
          /\ AmountSign(Rows[i].presentValue) > 0
          /\ AmountSign(Rows[j].presentValue) > 0

(***************************************************************************)
(* Properties of calculatePortfolio, read on the memoised portfolioResult  *)
(***************************************************************************)
\* the bonds in the order p
Permuted(p) == ArrayOf([i \in 1 .. Len(bonds) |-> bonds[p[i]]])

\* C9: the consolidated table of the years is the same for the bonds taken
\* in any order: the same years and, year by year, the same coupon total,
\* principal total, combined total and number of flows
C9_YearTableIgnoresBondOrder ==
    portfolioResult \notin {NoResult, Crashed} =>
        \A p \in Permutations(1 .. Len(bonds)) :
            calculatePortfolio(Permuted(p)).value.consolidatedFlows
                = portfolioResult.consolidatedFlows

(***************************************************************************)
(* The duration of a result                                                *)
(***************************************************************************)
\* priceForDuration, the sum of the present values of the rows
PriceForDuration == AmountSum([i \in 1 .. Len(Rows) |-> Rows[i].presentValue])

\* the time to the principal in years of 252 business days
TimeToMaturity == Frac(Rows[Len(Rows)].businessDays, 252)

DurationBelowMaturity ==
    /\ FracLess(Frac(0, 1), result.duration)
    /\ FracLess(result.duration, TimeToMaturity)

ComparedRates == RateValues \cup {601 * Pow10(4)}

\* what calculateNTNB returns for the form at the yield y
AtRate(y) == calculateNTNB([formData EXCEPT !.purchaseRate = y]).value

\* C11 as the specification states it, on the bonds with valid dates and
\* figures and a VNA of 10.00 or more: every higher yield gives a quotation
\* and a unit price strictly below those of the result
C11_PriceFallsWithYield ==
    (/\ result # NoResult
     /\ ValidDates
     /\ ValidFigures
     /\ formData.vnaPrevious >= 10 * One) =>
        \A y \in ComparedRates :
            y > formData.purchaseRate =>
                /\ AtRate(y).quotation < result.quotation
                /\ AtRate(y).unitPrice < result.unitPrice

\* C11: for a bond with valid dates, a quantity and a VNA above 0 and a yield
\* above -100 %, no higher yield gives a quotation or a unit price above
\* those of the result
C11_PriceNeverRisesWithYield ==
    (/\ result # NoResult
     /\ ValidDates
     /\ formData.quantity > 0
     /\ formData.vnaPrevious > 0
     /\ formData.purchaseRate > -100 * One) =>
        \A y \in ComparedRates :
            y > formData.purchaseRate =>
                /\ AtRate(y).quotation <= result.quotation
                /\ AtRate(y).unitPrice <= result.unitPrice

\* a bond priced at 6.00 whose quotation is lower at 6.01, its unit price
\* the same to the cent
C11_Witness ==
    /\ result # NoResult
    /\ ValidDates
    /\ ValidFigures
    /\ formData.vnaPrevious >= 10 * One
    /\ formData.purchaseRate = 6 * One
    /\ AtRate(601 * Pow10(4)).quotation < result.quotation
    /\ AtRate(601 * Pow10(4)).unitPrice = result.unitPrice

(***************************************************************************)
(* The calendar functions, applied to the dates of the form                *)
(***************************************************************************)
\* the two dates of the form
FormDates == {settlement, maturity}

C14_BusinessDaysCountTheEventDate ==
    (result # NoResult /\ ValidDates) =>
        \A i \in 1 .. Len(Rows) :
            Rows[i].businessDays
                = countBusinessDays(settlement, Rows[i].date) + 1

(***************************************************************************)
(* The values of the rows, and the totals                                  *)
(***************************************************************************)
\* C15: the futureValue of a 'J' row is the VNA times 3%, cut to 2 decimals,
\* times the quantity, and its rate is 3; the futureValue of the 'P' row is
\* the VNA cut to 2 decimals, times the quantity
C15_InterestIsThreePercentOfVna ==
    (result # NoResult /\ ValidDates /\ ValidFigures) =>
        \A i \in 1 .. Len(Rows) :
            IF Rows[i].type = "J"
            THEN /\ Rows[i].futureValue
                        = TimesQuantity(
                              truncate(Num(FxMul(result.calculatedVna, 3 * Pow10(4))), 2),
                              formData.quantity)
                 /\ Rows[i].rate = 3 * One
            ELSE Rows[i].futureValue
                     = TimesQuantity(truncate(Num(result.calculatedVna), 2),
                                     formData.quantity)

\* C16: the unit price is the VNA times the quotation over 100, cut to 2
\* decimals; the total investment is the unit price times the quantity, the
\* gross amount returned is the sum of the futureValue of the rows, and the
\* gross profit is the gross amount returned less the total investment.
\* The cut, for figures that are not negative: a whole number of cents, at
\* most the product, and less than a cent below it
C16_TotalsFollowFromPriceAndRows ==
    result # NoResult =>
        /\ (ValidFigures /\ result.quotation >= 0) =>
               LET product == WMul(WFromInt(result.calculatedVna),
                                   WFromInt(result.quotation))
                   cents(price) == WMul(WFromInt(price), WFromInt(Pow10(8)))
               IN  /\ result.unitPrice >= 0
                   /\ result.unitPrice % Pow10(4) = 0
                   /\ ~WLess(product, cents(result.unitPrice))
                   /\ WLess(product, cents(result.unitPrice + Pow10(4)))
        /\ result.totalInvestment
               = TimesQuantity(result.unitPrice, formData.quantity)
        /\ result.grossAmountReturned
               = AmountSum([i \in 1 .. Len(Rows) |-> Rows[i].futureValue])
        /\ result.grossProfit
               = AmountSub(result.grossAmountReturned, result.totalInvestment)

\* a result for more than one bond, whose unit price lost a fraction of a
\* cent, and whose rows return more than was invested
C16_Witness ==
    /\ result # NoResult
    /\ ValidDates
    /\ ValidFigures
    /\ formData.quantity > 1
    /\ Len(Rows) > 1
    /\ result.unitPrice > 0
    /\ WLess(WMul(WFromInt(result.unitPrice), WFromInt(Pow10(8))),
             WMul(WFromInt(result.calculatedVna), WFromInt(result.quotation)))
    /\ AmountSign(result.grossProfit) > 0

(***************************************************************************)
(* The custody fee                                                         *)
(***************************************************************************)
\* C17: a total investment above 10000 adds exactly one negative row, dated
\* at the maturity, of totalInvestment * 0.002 * totalYears (to the last
\* digit of the fixed point, totalYears being the days from the purchase to
\* the maturity over 252), and the gross amount returned is reduced by it; a
\* total investment up to 10000 adds none
C17_CustodyFeeAboveThreshold ==
    (result # NoResult /\ ValidDates /\ ValidFigures) =>
        LET negativeRows ==
                { i \in 1 .. Len(Rows) : AmountSign(Rows[i].futureValue) < 0 }
            scale == WFromInt(252 * One)
            charged(i) ==
                WMul(AmountMicros(AmountSub(Amount(0, 0), Rows[i].futureValue)),
                     scale)
            due == WMul(AmountMicros(result.totalInvestment),
                        WFromInt(B3_CUSTODY_FEE_RATE * (maturity.t - settlement.t)))
        IN  IF AmountSign(AmountSub(result.totalInvestment,
                                    Amount(B3_CUSTODY_FEE_THRESHOLD, 0))) > 0
            THEN /\ Cardinality(negativeRows) = 1
                 /\ \A i \in negativeRows :
                       /\ RowDay(i) = maturity.t
                       /\ WLess(charged(i), WAdd(due, scale))
                       /\ WLess(due, WAdd(charged(i), scale))
                 /\ result.grossAmountReturned
                        = AmountSum([i \in 1 .. Len(Rows) |-> Rows[i].futureValue])
            ELSE negativeRows = {}

(***************************************************************************)
(* The table of the years of a portfolio                                   *)
(***************************************************************************)
\* C19: the table has exactly one row for every year in which some bond has
\* a flow, in ascending order of the years; in a row, couponValue is the sum
\* of the futureValue of the 'J' flows of the year, principalValue that of
\* its 'P' flows, totalValue is couponValue + principalValue, and flowCount
\* is the number of flows of the year
C19_YearRowsAddUp ==
    portfolioResult \notin {NoResult, Crashed} =>
        LET rows  == portfolioResult.consolidatedFlows
            flows == allFlows(portfolioResult.individualResults)
            ofYear(y, types) ==
                SelectSeq(flows, LAMBDA f : f.year = y /\ f.type \in types)
        IN  /\ { rows[i].year : i \in 1 .. Len(rows) }
                   = { flows[k].year : k \in 1 .. Len(flows) }
            /\ \A i, j \in 1 .. Len(rows) : i < j => rows[i].year < rows[j].year
            /\ \A i \in 1 .. Len(rows) :
                  /\ rows[i].couponValue
                         = reduceSum(valuesOf(ofYear(rows[i].year, {"J"})))
                  /\ rows[i].principalValue
                         = reduceSum(valuesOf(ofYear(rows[i].year, {"P"})))
                  /\ rows[i].totalValue
                         = B64Add(rows[i].couponValue, rows[i].principalValue)
                  /\ rows[i].flowCount = Len(ofYear(rows[i].year, {"J", "P"}))

ProRataOfForm ==
    calculateProRataCoupon(settlement, formData.purchasePrice,
                           TruncDiv(formData.projectedIpca, 100), formData.quantity)

C21_AnchorsOfThePeriodPayOnce ==
    (result # NoResult /\ BothDates) =>
        LET cycle   == IF getUTCMonth(maturity) \in {1, 7} THEN {1, 7} ELSE {4, 10}
            anchors == { DateUTC(y, m, 15) :
                           y \in getUTCFullYear(settlement) - 1
                                    .. getUTCFullYear(maturity) + 1,
                           m \in cycle }
            paid(t) == { i \in 1 .. Len(Rows) :
                           Rows[i].type = "J" /\ AdjustedFrom(t, RowDay(i)) }
        IN  /\ \A t \in anchors :
                  Cardinality(paid(t))
                      = IF settlement.t < t /\ t <= maturity.t THEN 1 ELSE 0
            /\ Cardinality({ i \in 1 .. Len(Rows) : Rows[i].type = "J" })
                   = Cardinality({ t \in anchors :
                                     settlement.t < t /\ t <= maturity.t })

\* a bond bought on an anchor, which pays nothing for it, and maturing on an
\* anchor that is no business day, which pays its coupon after the maturity
C21_Witness ==
    /\ result # NoResult
    /\ ValidDates
    /\ getUTCDate(settlement) = 15
    /\ getUTCMonth(settlement) \in {4, 10}
    /\ getUTCDate(maturity) = 15
    /\ getUTCMonth(maturity) \in {4, 10}
    /\ \A i \in 1 .. Len(Rows) : RowDay(i) > settlement.t + 6
    /\ \E i \in 1 .. Len(Rows) : Rows[i].type = "J" /\ RowDay(i) > maturity.t

C23_ReferenceDatesAroundThePurchase ==
    (Called /\ formData.purchaseDate.kind = "ymd") =>
        LET ref   == referenceDates(settlement)
            year  == formData.purchaseDate.y
            month == formData.purchaseDate.m
            daysNumerator   == countCalendarDays(ref.start, settlement)
            daysDenominator == countCalendarDays(ref.start, ref.end)
        IN  /\ IF formData.purchaseDate.d >= 15
               THEN /\ ref.start = parseDateAsUTC(Ymd(year, month, 15))
                    /\ ref.end = IF month = 12
                                 THEN parseDateAsUTC(Ymd(year + 1, 1, 15))
                                 ELSE parseDateAsUTC(Ymd(year, month + 1, 15))
               ELSE /\ ref.start = IF month = 1
                                   THEN parseDateAsUTC(Ymd(year - 1, 12, 15))
                                   ELSE parseDateAsUTC(Ymd(year, month - 1, 15))
                    /\ ref.end = parseDateAsUTC(Ymd(year, month, 15))
            /\ ref.start.t <= settlement.t
            /\ settlement.t < ref.end.t
            /\ \A t \in ref.start.t + 1 .. ref.end.t - 1 :
                  getUTCDate(MkDate(t)) # 15
            /\ daysNumerator.fin /\ daysDenominator.fin
            /\ 0 <= daysNumerator.v
            /\ daysNumerator.v < daysDenominator.v
            /\ daysNumerator.v = settlement.t - ref.start.t
            /\ daysDenominator.v = ref.end.t - ref.start.t

\* a bond bought on the 5th of January, referred to the 15th of December of
\* the year before and priced 21 days of 31 into the month
C23_Witness ==
    /\ result # NoResult
    /\ formData.purchaseDate = Ymd(2026, 1, 5)
    /\ referenceDates(settlement).start = parseDateAsUTC(Ymd(2025, 12, 15))
    /\ referenceDates(settlement).end = parseDateAsUTC(Ymd(2026, 1, 15))
    /\ countCalendarDays(referenceDates(settlement).start, settlement).v = 21
    /\ formData.vnaPrevious = 10 * One
    /\ formData.projectedIpca > 0
    /\ result.calculatedVna > formData.vnaPrevious

(***************************************************************************)
(* The truncations                                                         *)
(***************************************************************************)
\* C24: a truncation gives the largest multiple of its precision that is not
\* above the value, for a negative value as for any other: the unit price is
\* that multiple of 0.01 for vna * quotation / 100, and the futureValue of a
\* row is the quantity times that multiple of 0.01 for the VNA, or for the
\* VNA times the coupon rate
C24_TruncationIsFloor ==
    (result # NoResult /\ ValidDates /\ formData.quantity > 0
        /\ formData.purchaseRate >= 0) =>
        LET floor2(v) == (v \div Pow10(4)) * Pow10(4)
        IN  /\ result.unitPrice
                   = floor2(FxMul(result.calculatedVna,
                                  TruncDiv(result.quotation, 100)))
            /\ \A i \in 1 .. Len(Rows) :
                  Rows[i].futureValue
                      = TimesQuantity(
                            floor2(IF Rows[i].type = "J"
                                   THEN FxMul(result.calculatedVna,
                                              SEMI_ANNUAL_COUPON_RATE)
                                   ELSE result.calculatedVna),
                            formData.quantity)

(***************************************************************************)
(* Numbers that are not finite                                             *)
(***************************************************************************)
\* C25: when vnaPrevious * (1 + ipca)^x is no finite number, the call still
\* returns, and the calculatedVna of its result is no finite number either
C25_NonFiniteVnaSurfaces ==
    (Called /\ ValidDates /\ ValidFigures) =>
        LET ref == referenceDates(settlement)
            raw == vnaProjectedRaw(formData,
                                   countCalendarDays(ref.start, settlement),
                                   countCalendarDays(ref.start, ref.end))
        IN  ~raw.fin => (result # NoResult /\ result.calculatedVna \notin Int)

C27_DurationIsFinite ==
    (result # NoResult /\ ValidDates /\ formData.quantity > 0
        /\ formData.vnaPrevious > 0) =>
        /\ result.duration # NaN
        /\ AmountSum([i \in 1 .. Len(Rows) |-> Rows[i].presentValue]) = Amount(0, 0)
              => FracEq(result.duration, Frac(0, 1))

C29_PortfolioTotals ==
    portfolioResult \notin {NoResult, Crashed} =>
        LET results == portfolioResult.individualResults
            rows    == portfolioResult.consolidatedFlows
        IN  /\ Len(results) = Len(bonds)
            /\ \A i \in 1 .. Len(bonds) :
                  /\ results[i].id = bonds[i].id
                  /\ results[i].name = bonds[i].name
                  /\ results[i].result = calculateNTNB(bonds[i]).value
            /\ portfolioResult.totalInvested
                   = reduceSum(ArrayOf([i \in 1 .. Len(results) |->
                         totalInvestment64(results[i].result)]))
            /\ portfolioResult.totalReturned
                   = reduceSum(ArrayOf([i \in 1 .. Len(results) |->
                         grossAmountReturned64(results[i].result)]))
            /\ portfolioResult.totalProfit
                   = B64Sub(portfolioResult.totalReturned,
                            portfolioResult.totalInvested)
            /\ SumSeq([i \in 1 .. Len(rows) |-> rows[i].flowCount])
                   = SumSeq([i \in 1 .. Len(results) |->
                         Len(results[i].result.cashFlows)])
            /\ reduceSum(ArrayOf([i \in 1 .. Len(rows) |-> rows[i].totalValue]))
                   = portfolioResult.totalReturned

(***************************************************************************)
(* The state of PortfolioManager after any adds, removals and clicks       *)
(***************************************************************************)
\* C30: the portfolio result is null exactly when there is no bond, and
\* otherwise it is what calculatePortfolio makes of the bonds of the list;
\* the selected id is null or the id of a bond of the list; and the result
\* of the selected bond is null unless it is that of a bond of the list,
\* the selected one
C30_ResultAndSelectionFollowTheList ==
    /\ (portfolioResult = NoResult) <=> (bonds = <<>>)
    /\ bonds # <<>> => portfolioResult = memoOf(calculatePortfolio(bonds))
    /\ \/ selectedBondId = NullId
       \/ \E i \in 1 .. Len(bonds) : bonds[i].id = selectedBondId
    /\ selectedBondResult # NoResult =>
          \E i \in 1 .. Len(bonds) :
              /\ bonds[i].id = selectedBondId
              /\ selectedBondResult.id = bonds[i].id
              /\ selectedBondResult.name = bonds[i].name
              /\ selectedBondResult.result = calculateNTNB(bonds[i]).value

\* two bonds were added and the first one removed; the bond left is the
\* selected one, and its result is shown
C30_Witness ==
    /\ nextId = 3
    /\ Len(bonds) = 1
    /\ bonds[1].id = 2
    /\ selectedBondId = 2
    /\ portfolioResult \notin {NoResult, Crashed}
    /\ Len(portfolioResult.individualResults) = 1
    /\ selectedBondResult # NoResult
    /\ selectedBondResult.id = 2

====
